---- MODULE Spec2Model ----
(***************************************************************************)
(* retro-hunter: the boundary layer between the browser dashboard and the  *)
(* backend.                                                                *)
(*                                                                         *)
(*  - DeepAnalysisPage's loading effect (frontend/app/(app)/analysis/      *)
(*    page.tsx): one run() per effect execution, one wrap() per block,     *)
(*    guarded by the run's `alive` flag.      Specification: SpecOrch.     *)
(*  - the API gateway proxy() (frontend/app/api/[...path]/route.ts).       *)
(*                                            Specification: SpecGateway.  *)
(*                                                                         *)
(* JavaScript values are modelled as tagged records, strings that the code *)
(* builds or takes apart as sequences of tokens.                           *)
(***************************************************************************)
EXTENDS Integers, Sequences, FiniteSets, TLC

(***************************************************************************)
(* Bounds of the model.                                                    *)
(***************************************************************************)
\* Blocks of DeepAnalysisPage that are modelled.  The page has eight; every
\* one of them is loaded by the same wrap(), so they are interchangeable.
NBlocks == 2

\* Executions of the loading effect on one component instance (React runs
\* effect, cleanup, effect again when it re-mounts the effect).
MaxRuns == 2

\* Path segments of an inbound gateway request (under /api/).
MaxSegs == 2

\* Chunks the body stream of an inbound gateway request delivers.
MaxChunks == 1

\* Invocations of proxy() that run concurrently.
MaxCalls == 2

\* Invocations of loadUsers() on one UsersPage.
MaxLoads == 2

(***************************************************************************)
(* State.                                                                  *)
(***************************************************************************)
VARIABLES
    \* ---- DeepAnalysisPage ----
    loadingAll,   \* useState(true): the aggregate flag
    blocks,       \* the BlockState of every block (largeExes ... recentPe)
    alive,        \* alive[r]: the `alive` variable of the r-th effect execution
    effectRuns,   \* how many times the effect has been executed
    wrapPc,       \* wrapPc[r][b]: where wrap() of block b in run r stands
    runPc,        \* runPc[r]: where run() of the r-th execution stands
    writer,       \* writer[b]: the effect execution whose setter call wrote
                  \* blocks[b] last (0: the useState initial value)
    discarded,    \* discarded[b]: since the latest start of a run, a wrap of
                  \* block b has returned at `if (!alive) return;`
    issued        \* issued[r]: the blocks whose fetch the r-th execution
                  \* has issued, in the order of issue

VARIABLES
    \* ---- the gateway: one invocation of proxy(req, ctx) ----
    handler,      \* the exported function the router called for req
    req,          \* the inbound request (NoRequest before the invocation)
    gwPc,         \* where proxy() stands
    parts,        \* const parts
    bodyUsed,     \* req.bodyUsed: the inbound body stream has been read
    upstreamReqs, \* the requests issued to the upstream, in order
    upstream,     \* what fetch() came to: a response, or a rejection
    result        \* what proxy() came to: a Response, or a rejection

orchVars == <<loadingAll, blocks, alive, effectRuns, wrapPc, runPc, writer,
              discarded, issued>>

gwVars == <<req, handler, gwPc, parts, bodyUsed, upstreamReqs, upstream, result>>

VARIABLES
    \* ---- the gateway: concurrent invocations of proxy(req, ctx) ----
    calls,        \* calls[i]: the i-th invocation: where it stands, its req,
                  \* the request it issued, what fetch() came to, its result
    scopes        \* scopes[s]: the variables `target` and `headers` of the
                  \* scope s, which live across `await req.arrayBuffer()`

concVars == <<calls, scopes>>

VARIABLES
    \* ---- OverviewPage: one execution of its loading effect ----
    overview      \* the useState values kpis, items, comparisonCnt, loading
                  \* and err; `cancelled`; where load() stands (pc); what the
                  \* two fetches and Promise.all came to; and the setters
                  \* that were called after the cleanup (late)

VARIABLES
    \* ---- ScansPage, EventsPage: one execution of their loading effects ----
    scans,        \* ScansPage: scanItems, nasItems, loading; mounted; where
                  \* load() stands (pc); what the two fetches and Promise.all
                  \* came to; the setters called after the unmount (late)
    events        \* EventsPage: items, loading; where load() stands (pc);
                  \* what the fetch came to

VARIABLES
    \* ---- UsersPage ----
    usersPage     \* users, loading, error, message; the loadUsers()
                  \* invocations in the order they were started (loads);
                  \* the createUser / updateUser / deleteUser call under way
                  \* (mutation); the invocation that called setUsers last

VARIABLES
    \* ---- AppLayout ----
    layout        \* user, theme; where the auth effect stands (pc) and what
                  \* /auth/me came to (res); the route shown (location);
                  \* localStorage.theme (storage) and <html data-theme>
                  \* (dataset); where doLogout() stands (logout)

VARIABLES
    \* ---- update.sh: one run ----
    upd           \* where the script stands (pc); its arguments; the shell
                  \* variables SKIP_DB_UPDATE and REPO_UPDATED; .env and
                  \* .env.local in the working tree (work), in HEAD (head),
                  \* what origin/main does to them (remote), in the backup
                  \* directory (backup) and as they were before the run
                  \* (before); whether the import was executed (imported)

viewVars == <<overview, scans, events, usersPage, layout, upd>>

\* What the actions of one component leave alone.
restOfOrch == <<gwVars, concVars, viewVars>>
restOfGw   == <<orchVars, concVars, viewVars>>
restOfConc == <<orchVars, gwVars, viewVars>>
restOfOverview == <<orchVars, gwVars, concVars, scans, events, usersPage, layout, upd>>
restOfScans == <<orchVars, gwVars, concVars, overview, events, usersPage, layout, upd>>
restOfEvents == <<orchVars, gwVars, concVars, overview, scans, usersPage, layout, upd>>
restOfUsers == <<orchVars, gwVars, concVars, overview, scans, events, layout, upd>>
restOfLayout == <<orchVars, gwVars, concVars, overview, scans, events, usersPage, upd>>
restOfUpdate == <<orchVars, gwVars, concVars, overview, scans, events, usersPage, layout>>

vars == <<orchVars, gwVars, concVars, viewVars>>

Blocks == 1..NBlocks
Runs   == 1..MaxRuns

(***************************************************************************)
(* JavaScript values.                                                      *)
(***************************************************************************)
Arr(s)    == [type |-> "array", elems |-> s]
Obj(f)    == [type |-> "object", fields |-> f]
Str(toks) == [type |-> "string", chars |-> toks]
JsNull    == [type |-> "null"]
Undefined == [type |-> "undefined"]

\* ToBoolean, as `||` applies it to its left operand.
Truthy(v) ==
    CASE v.type = "null"      -> FALSE
      [] v.type = "undefined" -> FALSE
      [] v.type = "string"    -> v.chars # <<>>
      [] OTHER                -> TRUE

\* obj.name: undefined when the object has no such property.
GetProp(v, name) ==
    IF name \in DOMAIN v.fields THEN v.fields[name] ELSE Undefined

\* The message left untrimmed.
TrimNothing(s) == s

\* String.prototype.trim on a string given as a sequence of tokens, each token
\* a run of characters; " " is white space, "" is the empty string.
RECURSIVE TrimLeft(_)
TrimLeft(s) ==
    IF s = <<>> THEN <<>>
    ELSE IF Head(s) \in {" ", ""} THEN TrimLeft(Tail(s))
    ELSE s

RECURSIVE TrimRight(_)
TrimRight(s) ==
    IF s = <<>> THEN <<>>
    ELSE IF s[Len(s)] \in {" ", ""} THEN TrimRight(SubSeq(s, 1, Len(s) - 1))
    ELSE s

Trim(s) == TrimRight(TrimLeft(s))

(***************************************************************************)
(* BlockState (analysis/page.tsx, lines 10-14).  `error` is an optional    *)
(* property: a state without an error has no such field.                   *)
(***************************************************************************)
Pending       == [loading |-> TRUE, items |-> Arr(<<>>)]
Loaded(items) == [loading |-> FALSE, items |-> items]
Failed(msg)   == [loading |-> FALSE, items |-> Arr(<<>>), error |-> msg]

HasError(s) == "error" \in DOMAIN s
IsPending(s) == s.loading
IsLoaded(s)  == ~s.loading /\ ~HasError(s)
IsFailed(s)  == ~s.loading /\ HasError(s)

(***************************************************************************)
(* What one apiFetch(path) of a block can come to.                         *)
(*   reject:   the fetch promise rejects (transport error) with e.message  *)
(*   response: a response head arrived; `text` is what res.text() gives    *)
(*             ("unreadable": it rejects), `json` what res.json() gives    *)
(*             ("invalid": it rejects with a SyntaxError).                 *)
(***************************************************************************)
Reject(msg) == [kind |-> "reject", message |-> msg]
Response(status, statusText, text, json) ==
    [kind |-> "response", status |-> status, statusText |-> statusText,
     text |-> text, json |-> json]

Row1 == Obj([filename |-> Str(<<"evil.exe">>)])

FetchOutcomes ==
    { Reject(<<"Failed to fetch">>),
      Response(500, <<"Internal Server Error">>, [ok |-> TRUE, chars |-> <<"boom">>],
               [ok |-> FALSE]),
      Response(200, <<"OK">>, [ok |-> TRUE, chars |-> <<"{..}">>],
               [ok |-> TRUE, value |-> Obj([items |-> Arr(<<Row1>>)])]),
      Response(200, <<"OK">>, [ok |-> TRUE, chars |-> <<"{}">>],
               [ok |-> TRUE, value |-> Obj(<<>>)]),
      Response(200, <<"OK">>, [ok |-> TRUE, chars |-> <<"<html>">>],
               [ok |-> FALSE]) }

\* Response.ok: the status is in 200..299.
ResOk(res) == res.status >= 200 /\ res.status <= 299

\* loadBlock() with a body that is no JSON read as an empty object.
LoadBlockJsonDefault(o) ==
    IF o.kind = "reject" THEN [tag |-> "rejected", message |-> o.message]
    ELSE IF ~ResOk(o) THEN
        LET msg == IF o.text.ok THEN o.text.chars ELSE <<>>
        IN  [tag |-> "rejected",
             message |-> Trim(<<ToString(o.status), " ">> \o o.statusText
                              \o <<" ">> \o msg)]
    ELSE LET data == IF o.json.ok THEN o.json.value ELSE Obj(<<>>)
             items == IF data.type = "object" THEN GetProp(data, "items")
                      ELSE Undefined
         IN  [tag |-> "fulfilled",
              value |-> IF Truthy(items) THEN items ELSE Arr(<<>>)]

\* loadBlock(path), given what its apiFetch came to: the promise it returns
\* either fulfils with the items or rejects with an error message.
Fulfil(v)   == [tag |-> "fulfilled", value |-> v]
Throw(msg)  == [tag |-> "rejected", message |-> msg]

LoadBlock(o) ==
    IF o.kind = "reject" THEN Throw(o.message)
    ELSE IF ~ResOk(o) THEN
        LET msg == IF o.text.ok THEN o.text.chars ELSE <<>>
        IN  Throw(Trim(<<ToString(o.status), " ">> \o o.statusText \o <<" ">> \o msg))
    ELSE IF ~o.json.ok THEN Throw(<<"SyntaxError: Unexpected token">>)
    ELSE IF o.json.value.type \in {"null", "undefined"}
         THEN Throw(<<"TypeError: Cannot read properties of null">>)
    ELSE LET items == IF o.json.value.type = "object"
                      THEN GetProp(o.json.value, "items") ELSE Undefined
         IN  Fulfil(IF Truthy(items) THEN items ELSE Arr(<<>>))

(***************************************************************************)
(* wrap(setter, fn)  (analysis/page.tsx, lines 161-171).                   *)
(***************************************************************************)
\* wrap() without the check of `alive`.
WrapMayWriteUnchecked(r) == TRUE

\* `if (!alive) return;` before either setter call of a settled wrap.
WrapMayWrite(r) == alive[r]

\* The success setter call leaving `loading` as it was.
SetOnResolveStillLoading(items) == [loading |-> TRUE, items |-> items]

\* setter({ loading: false, items })
SetOnResolve(items) == [loading |-> FALSE, items |-> items]

\* The message taken as it is.
ErrorTextRaw(msg) == msg

\* e?.message || "Error"
ErrorText(msg) == IF msg # <<>> THEN msg ELSE <<"Error">>

\* The failure written through every setter instead of the wrap's own.
\* The failure recorded with the block left loading.
BlocksAfterRejectStillLoading(b, msg) ==
    [blocks EXCEPT ![b] = [loading |-> TRUE, items |-> Arr(<<>>),
                           error |-> ErrorText(msg)]]

BlocksAfterRejectAll(b, msg) ==
    [x \in Blocks |-> [loading |-> FALSE, items |-> Arr(<<>>),
                       error |-> ErrorText(msg)]]

\* setter({ loading: false, items: [], error: e?.message || "Error" }): the
\* setter is the one of block b, the others keep their state.
BlocksAfterReject(b, msg) ==
    [blocks EXCEPT ![b] = [loading |-> FALSE, items |-> Arr(<<>>),
                           error |-> ErrorText(msg)]]

\* The items kept back until the run is over: no setter call on resolve.
BlocksAfterResolveDeferred(b, items) == blocks

\* setter({ loading: false, items }): the setter is the one of block b.
BlocksAfterResolve(b, items) == [blocks EXCEPT ![b] = SetOnResolve(items)]

\* wrap() without its catch clause: a rejection of fn() rejects wrap().
WrapSettledNoCatch(res) == res.tag

\* The promise wrap() returns: the catch clause handles every rejection of
\* fn(), so it fulfils whatever fn() came to.
WrapSettled(res) == "fulfilled"

\* Promise.all over the wraps of run r.
PromiseAll(r) ==
    IF \E b \in Blocks : wrapPc[r][b] = "rejected" THEN "rejected"
    ELSE IF \A b \in Blocks : wrapPc[r][b] = "fulfilled" THEN "fulfilled"
    ELSE "pending"

(***************************************************************************)
(* The loading effect  (analysis/page.tsx, lines 155-192).                 *)
(***************************************************************************)
\* `alive` as one cell shared by every execution of the effect.
AliveAfterStartShared(r) == [x \in Runs |-> TRUE]

\* `let alive = true;`: a variable of this execution of the effect.
AliveAfterStart(r) == [alive EXCEPT ![r] = TRUE]

RECURSIVE WrapCalls(_)
\* The elements of the array given to Promise.all are evaluated from left to
\* right: the wrap() calls of the first n blocks, in the order of the calls.
\* Each call runs up to its `await fn()`, fn() having issued the fetch.
WrapCalls(n) == IF n = 0 THEN <<>> ELSE Append(WrapCalls(n - 1), n)

\* Each wrap() awaited before the next one is called.
FetchesAtStartFirstOnly == WrapCalls(1)

\* The fetches issued when run() reaches `await Promise.all`.
FetchesAtStart == WrapCalls(NBlocks)

\* The effect runs: alive = true, then run() up to `await Promise.all`:
\* setLoadingAll(true) and, for every block in turn, wrap() up to its
\* `await fn()`: setter({loading: true, items: []}) and the fetch is issued.
\* React runs the cleanup of the previous execution before running an effect
\* again.
StartRun ==
    /\ effectRuns < MaxRuns
    /\ effectRuns > 0 => ~alive[effectRuns]
    /\ LET r == effectRuns + 1 IN
        /\ effectRuns' = r
        /\ alive' = AliveAfterStart(r)
        /\ loadingAll' = TRUE
        /\ blocks' = [b \in Blocks |-> Pending]
        /\ writer' = [b \in Blocks |-> r]
        /\ issued' = [issued EXCEPT ![r] = FetchesAtStart]
        /\ wrapPc' = [wrapPc EXCEPT ![r] =
                         [b \in Blocks |->
                            IF \E i \in 1..Len(FetchesAtStart) :
                                  FetchesAtStart[i] = b
                            THEN "awaiting" ELSE "idle"]]
        /\ runPc' = [runPc EXCEPT ![r] = "awaitAll"]
        /\ discarded' = [b \in Blocks |-> FALSE]
    /\ UNCHANGED restOfOrch

\* The fetch of block b of run r settles and wrap() resumes after `await fn()`.
Settle(r, b, o) ==
    /\ wrapPc[r][b] = "awaiting"
    /\ LET res == LoadBlock(o) IN
        /\ IF WrapMayWrite(r)
           THEN /\ blocks' = IF res.tag = "fulfilled"
                             THEN BlocksAfterResolve(b, res.value)
                             ELSE BlocksAfterReject(b, res.message)
                /\ writer' = [writer EXCEPT ![b] = r]
                /\ UNCHANGED discarded
           ELSE /\ discarded' = [discarded EXCEPT ![b] = TRUE]
                /\ UNCHANGED <<blocks, writer>>
        /\ wrapPc' = [wrapPc EXCEPT ![r][b] = WrapSettled(res)]
    /\ UNCHANGED <<loadingAll, alive, effectRuns, runPc, issued>>
    /\ UNCHANGED restOfOrch

\* Promise.all has settled and run() resumes: `if (!alive) return;
\* setLoadingAll(false);`.  Were Promise.all to reject, run() would reject at
\* the await and the two statements would not be executed.
Finish(r) ==
    /\ runPc[r] = "awaitAll"
    /\ PromiseAll(r) # "pending"
    /\ IF PromiseAll(r) = "fulfilled"
       THEN /\ loadingAll' = IF alive[r] THEN FALSE ELSE loadingAll
            /\ runPc' = [runPc EXCEPT ![r] = "done"]
       ELSE /\ runPc' = [runPc EXCEPT ![r] = "rejected"]
            /\ UNCHANGED loadingAll
    /\ UNCHANGED <<blocks, alive, effectRuns, wrapPc, writer, discarded,
                   issued>>
    /\ UNCHANGED restOfOrch

\* The cleanup the effect returned: alive = false.
Cleanup(r) ==
    /\ r = effectRuns
    /\ alive[r]
    /\ alive' = [alive EXCEPT ![r] = FALSE]
    /\ UNCHANGED <<loadingAll, blocks, effectRuns, wrapPc, runPc, writer,
                   discarded, issued>>
    /\ UNCHANGED restOfOrch

\* The component as constructed: the useState initial values, no effect yet.
InitPage ==
    /\ loadingAll = TRUE
    /\ blocks = [b \in Blocks |-> Pending]
    /\ alive = [r \in Runs |-> FALSE]
    /\ effectRuns = 0
    /\ wrapPc = [r \in Runs |-> [b \in Blocks |-> "idle"]]
    /\ runPc = [r \in Runs |-> "idle"]
    /\ writer = [b \in Blocks |-> 0]
    /\ discarded = [b \in Blocks |-> FALSE]
    /\ issued = [r \in Runs |-> <<>>]

NoRequest == [type |-> "none"]

\* The route exports no function the router can call for the method.
NoHandler == "none"

\* No invocation of proxy() yet.
InitProxy ==
    /\ req = NoRequest
    /\ handler = NoHandler
    /\ gwPc = "idle"
    /\ parts = <<>>
    /\ bodyUsed = FALSE
    /\ upstreamReqs = <<>>
    /\ upstream = NoRequest
    /\ result = NoRequest

Calls == 1..MaxCalls

\* No concurrent invocation yet.
InitCalls ==
    /\ calls = [i \in Calls |->
                  [pc |-> "idle", req |-> NoRequest, sent |-> NoRequest,
                   up |-> NoRequest, result |-> NoRequest]]
    /\ scopes = [i \in Calls |-> NoRequest]

\* A fetch, or a Promise.all, that has not settled.
Unsettled == [state |-> "pending"]

\* OverviewPage as constructed: the useState initial values (page.tsx, lines
\* 117-121), the effect not yet run.
InitOverview ==
    overview = [pc |-> "idle", cancelled |-> FALSE,
                kpis |-> JsNull, items |-> Arr(<<>>), comparisonCnt |-> 0,
                loading |-> TRUE, err |-> <<>>,
                kpiRes |-> Unsettled, suspRes |-> Unsettled, all |-> Unsettled,
                late |-> {}]

\* ScansPage as constructed (scans/page.tsx, lines 65-67).
InitScans ==
    scans = [pc |-> "idle", mounted |-> TRUE,
             scanItems |-> Arr(<<>>), nasItems |-> Arr(<<>>), loading |-> TRUE,
             scanRes |-> Unsettled, nasRes |-> Unsettled, all |-> Unsettled,
             late |-> {}]

\* EventsPage as constructed (users/page.tsx, lines 464-465).
InitEvents ==
    events = [pc |-> "idle", items |-> Arr(<<>>), loading |-> TRUE,
              res |-> Unsettled]

\* No createUser / updateUser / deleteUser call under way.
NoMutation == [kind |-> "none"]

\* UsersPage as constructed (users/page.tsx, lines 25-41).
InitUsers ==
    usersPage = [users |-> Arr(<<>>), loading |-> TRUE,
                 error |-> JsNull, message |-> JsNull,
                 loads |-> <<>>, mutation |-> NoMutation, setBy |-> 0]

Themes == {"light", "dark"}

\* AppLayout as constructed (lines 282-283), localStorage without a theme.
InitLayout ==
    layout = [user |-> JsNull, theme |-> "light",
              pc |-> "idle", res |-> Unsettled, location |-> "app",
              storage |-> JsNull, dataset |-> Undefined, logout |-> "none"]

\* update.sh not yet started.
InitUpdate == upd = [pc |-> "idle"]

InitViews ==
    /\ InitOverview /\ InitScans /\ InitEvents /\ InitUsers /\ InitLayout
    /\ InitUpdate

InitOrch == InitPage /\ InitProxy /\ InitCalls /\ InitViews

NextOrch ==
    \/ StartRun
    \/ \E r \in Runs, b \in Blocks, o \in FetchOutcomes : Settle(r, b, o)
    \/ \E r \in Runs : Finish(r)
    \/ \E r \in Runs : Cleanup(r)

SpecOrch == InitOrch /\ [][NextOrch]_vars

\* The continuation of run() after `await Promise.all` is a microtask: once
\* Promise.all has settled the event loop runs it.
SpecOrchFair == SpecOrch /\ \A r \in Runs : WF_vars(Finish(r))

(***************************************************************************)
(* One run of the effect over every shape of response loadBlock() can meet. *)
(***************************************************************************)
NoText == [ok |-> FALSE]
Text(toks) == [ok |-> TRUE, chars |-> toks]
NoJson == [ok |-> FALSE]
Json(v) == [ok |-> TRUE, value |-> v]

\* Success responses whose body is JSON, but no object with a list `items`.
MisshapenOutcomes ==
    { Response(200, <<"OK">>, Text(<<"{}">>), Json(Obj(<<>>))),
      Response(200, <<"OK">>, Text(<<"{items:null}">>),
               Json(Obj([items |-> JsNull]))),
      Response(200, <<"OK">>, Text(<<"{items:'x'}">>),
               Json(Obj([items |-> Str(<<"x">>)]))),
      Response(200, <<"OK">>, Text(<<"[{..}]">>), Json(Arr(<<Row1>>))),
      Response(200, <<"OK">>, Text(<<"null">>), Json(JsNull)) }

\* Success responses whose body is no JSON.
NonJsonOutcomes ==
    { Response(200, <<"OK">>, Text(<<"<html>">>), NoJson),
      Response(200, <<"OK">>, Text(<<>>), NoJson) }

\* Responses with a non-success status: with and without a status text
\* (HTTP/2 has none), with a body text, an empty one and an unreadable one.
ErrorStatusOutcomes ==
    { Response(500, <<"Internal Server Error">>, Text(<<"boom">>), NoJson),
      Response(500, <<"Internal Server Error">>, NoText, NoJson),
      Response(404, <<"Not Found">>, Text(<<>>), NoJson),
      Response(401, <<>>, Text(<<"{detail}">>), Json(Obj(<<>>))),
      Response(503, <<>>, Text(<<>>), NoJson) }

\* Transport errors, with and without a message.
RejectOutcomes == { Reject(<<"Failed to fetch">>), Reject(<<>>) }

LoadOutcomes ==
    FetchOutcomes \cup MisshapenOutcomes \cup NonJsonOutcomes
        \cup ErrorStatusOutcomes \cup RejectOutcomes

\* The effect is executed for the first time.
StartFirstRun == effectRuns = 0 /\ StartRun

NextLoad ==
    \/ StartFirstRun
    \/ \E b \in Blocks, o \in LoadOutcomes : Settle(1, b, o)
    \/ Finish(1)
    \/ Cleanup(1)

SpecLoad == InitOrch /\ [][NextLoad]_vars

(***************************************************************************)
(* DeepAnalysisPage: the claims.                                           *)
(***************************************************************************)
\* This step resumes wrap() of block b of run r after its fetch settled.
WrapResumes(r, b) == wrapPc[r][b] = "awaiting" /\ wrapPc'[r][b] # "awaiting"

\* This step resumes run() of run r after Promise.all settled.
RunResumes(r) == runPc[r] = "awaitAll" /\ runPc'[r] # "awaitAll"

\* Every fetch of run r has settled.
AllSettled(r) == \A b \in Blocks : wrapPc[r][b] \notin {"idle", "awaiting"}

\* C1: once the cleanup of a run has set alive = false, no step of that run
\* (the resumption of any of its wraps, whether its fetch succeeded or failed,
\* or the resumption of run() after Promise.all) calls a block setter or
\* setLoadingAll: the block states and the aggregate flag stay as they were.
C1_NoWriteAfterCleanup ==
    [][\A r \in Runs :
         (~alive[r] /\ (RunResumes(r) \/ \E b \in Blocks : WrapResumes(r, b)))
             => UNCHANGED <<blocks, loadingAll, writer>>]_vars

\* C1 witness: the first run was cancelled before any of its fetches settled,
\* all of them settled afterwards, run() returned, and every block is still
\* Pending with the aggregate flag still true.
C1_Witness ==
    /\ effectRuns = 1 /\ ~alive[1]
    /\ AllSettled(1) /\ runPc[1] = "done"
    /\ \A b \in Blocks : discarded[b] /\ blocks[b] = Pending /\ writer[b] = 1
    /\ loadingAll = TRUE

\* C2: the aggregate flag is false only when every block has loading = false,
\* and once every fetch of a run has settled, with whatever mix of successes
\* and failures, the flag becomes false unless the run is cancelled.
C2_AggregateDone ==
    /\ [](loadingAll = FALSE => \A b \in Blocks : ~blocks[b].loading)
    /\ \A r \in Runs :
          (runPc[r] = "awaitAll" /\ AllSettled(r))
              ~> (loadingAll = FALSE \/ ~alive[r])

\* C2 witness: a run that was not cancelled finished with one block Failed and
\* another Loaded, and the aggregate flag is false.
C2_Witness ==
    /\ effectRuns = 1 /\ alive[1] /\ runPc[1] = "done"
    /\ loadingAll = FALSE
    /\ \E b1, b2 \in Blocks : IsFailed(blocks[b1]) /\ IsLoaded(blocks[b2])

\* C3: in the current run a block is Pending while its fetch is in flight and
\* Loaded or Failed once it settled; a block changes only when a run starts
\* or when its own fetch of the current run settles, and a block that is
\* Loaded or Failed keeps exactly that state (items and error detail) until a
\* new run starts.
C3_OneTransition ==
    /\ [](\A b \in Blocks :
            (effectRuns > 0 /\ alive[effectRuns]) =>
                /\ wrapPc[effectRuns][b] = "awaiting" => blocks[b] = Pending
                /\ wrapPc[effectRuns][b] \notin {"idle", "awaiting"} =>
                       (IsLoaded(blocks[b]) \/ IsFailed(blocks[b])))
    /\ [][\A b \in Blocks :
            /\ (blocks'[b] # blocks[b] /\ effectRuns' = effectRuns)
                  => WrapResumes(effectRuns, b)
            /\ (~blocks[b].loading /\ effectRuns' = effectRuns)
                  => blocks'[b] = blocks[b]]_vars

\* C3 witness: both kinds of terminal state, reached in a live run whose wraps
\* have all settled.
C3_Witness ==
    /\ effectRuns = 1 /\ alive[1] /\ AllSettled(1)
    /\ \E b1, b2 \in Blocks :
          /\ IsFailed(blocks[b1]) /\ blocks[b1].error = <<"Failed to fetch">>
          /\ IsLoaded(blocks[b2]) /\ blocks[b2].items = Arr(<<Row1>>)

\* C4: a step in which a block becomes Failed changes no other block.
C4_FailureIsolated ==
    [][\A b \in Blocks :
         (~IsFailed(blocks[b]) /\ IsFailed(blocks'[b]))
             => \A b2 \in Blocks \ {b} : blocks'[b2] = blocks[b2]]_vars

\* C4 witness: one block is Failed, another block of the same run settled
\* after it and is Loaded with the fetched items.
C4_Witness ==
    /\ effectRuns = 1 /\ alive[1]
    /\ \E b1, b2 \in Blocks :
          /\ IsFailed(blocks[b1]) /\ writer[b1] = 1
          /\ IsLoaded(blocks[b2]) /\ blocks[b2].items = Arr(<<Row1>>)

\* C5: once a run has been started, every block state is one written by the
\* latest run, the earlier runs stay cancelled, and a cleanup changes the
\* `alive` of its own run only.
C5_NewRunOwnsState ==
    /\ [](effectRuns > 0 =>
            /\ \A b \in Blocks : writer[b] = effectRuns
            /\ \A r \in Runs : r < effectRuns => ~alive[r])
    /\ [][\A r \in Runs :
            (alive[r] /\ ~alive'[r])
                => \A r2 \in Runs \ {r} : alive'[r2] = alive[r2]]_vars

\* C5 witness: the second run is live, a fetch of the first run settled after
\* the second run had started and was discarded, and the block it belongs to
\* holds what the second run loaded.
C5_Witness ==
    /\ effectRuns = 2 /\ alive[2]
    /\ \E b \in Blocks :
          /\ discarded[b] /\ wrapPc[1][b] = "fulfilled"
          /\ IsLoaded(blocks[b]) /\ blocks[b].items = Arr(<<Row1>>)
          /\ writer[b] = 2

(***************************************************************************)
(* The gateway: proxy(req, ctx)  (api/[...path]/route.ts, lines 9-37).     *)
(*                                                                         *)
(* A URL is a sequence of tokens: "/" and "?" are the delimiters, "%2F"    *)
(* and "%20" are percent-encoded triplets, " " is a raw space, every other *)
(* token is a run of unreserved characters.                                *)
(***************************************************************************)
Methods == {"GET", "HEAD", "POST", "PUT", "PATCH", "DELETE"}

\* The methods a client can send to the route: OPTIONS is one the route has
\* no handler for.
InboundMethods == Methods \cup {"OPTIONS"}

\* The route without its DELETE export.
ExportsNoDelete == {"GET", "POST", "PUT", "PATCH"}

\* The functions route.ts exports (lines 39-53).
Exports == {"GET", "POST", "PUT", "DELETE", "PATCH"}

\* The exported function the App Router calls for a method: the one of that
\* name, and GET for a HEAD request when no HEAD is exported.
RouteHandler(method) ==
    IF method \in Exports THEN method
    ELSE IF method = "HEAD" /\ "GET" \in Exports THEN "GET"
    ELSE NoHandler

\* The router's own answer to a method without a handler: OPTIONS is answered
\* 204 with an Allow header, any other method 405.
RouterResponse(method) ==
    [type |-> "response", status |-> IF method = "OPTIONS" THEN 204 ELSE 405,
     headers |-> [n \in {"allow"} |-> <<"GET, HEAD, OPTIONS, ...">>],
     body |-> JsNull]

\* Path segments as the client sends them.
SegChoices == { <<"users">>, <<"a", "%2F", "b">>, <<"a", "%20", "b">> }

RawPaths ==
    UNION { [1..n -> SegChoices] : n \in 1..MaxSegs }

\* Query strings as the client sends them ("" when the URL has none).
SearchChoices ==
    { <<>>, <<"?", "limit=200">>, <<"?", "q=a", "%2F", "b">> }

\* A Headers object: a function from lower-case header names to values.
HeaderNames == {"host", "connection", "accept", "cookie", "authorization"}

HeaderValues(name) ==
    CASE name = "host"       -> { <<"dash.example">> }
      [] name = "connection" -> { <<"keep-alive">> }
      [] name = "accept"     -> { <<"text/html">>, <<>> }
      [] name = "cookie"     -> { <<"sid=1">> }
      [] name = "authorization" -> { <<"Bearer t">> }

InboundHeaders ==
    UNION { { h \in [names -> UNION { HeaderValues(n) : n \in HeaderNames }] :
                \A n \in names : h[n] \in HeaderValues(n) } :
            names \in SUBSET HeaderNames }

\* The chunks a body stream delivers, each a sequence of bytes.
ChunkChoices == { <<0>>, <<200, 65>> }

BodyStreams ==
    UNION { [1..n -> ChunkChoices] : n \in 0..MaxChunks }

\* The inbound requests.  A Request whose method is GET or HEAD has no body
\* (its body is null).
Requests ==
    { [type |-> "request", method |-> m, rawPath |-> p, rawSearch |-> q,
       headers |-> h, body |-> b] :
        m \in InboundMethods, p \in RawPaths, q \in SearchChoices,
        h \in InboundHeaders, b \in BodyStreams }

InboundRequests ==
    { r \in Requests : r.method \in {"GET", "HEAD"} => r.body = <<>> }

RECURSIVE JoinSegs(_)
\* Array.prototype.join("/") over segments given as token sequences.
JoinSegs(segs) ==
    IF segs = <<>> THEN <<>>
    ELSE IF Len(segs) = 1 THEN segs[1]
    ELSE segs[1] \o <<"/">> \o JoinSegs(Tail(segs))

\* decodeURIComponent of one token.
DecodeToken(t) ==
    CASE t = "%2F" -> "/"
      [] t = "%20" -> " "
      [] OTHER     -> t

\* ctx.params.path as the router hands it to a route handler: the matched
\* part of the pathname split at "/", each segment passed through
\* decodeURIComponent.
RouteParams(rawPath) ==
    [i \in 1..Len(rawPath) |->
        [j \in 1..Len(rawPath[i]) |-> DecodeToken(rawPath[i][j])]]

\* getPathParts(ctx): (p?.path ?? [])
GetPathParts(params) == params

\* new URL(req.url).search: the query with its "?", "" when it is empty.
UrlSearch(rawSearch) == IF rawSearch = <<"?">> THEN <<>> ELSE rawSearch

\* The target built on the authority the client names in its host header.
TargetOnInboundHost(ps, search) ==
    <<IF req.type = "request" /\ "host" \in DOMAIN req.headers
      THEN "http://dash.example/" ELSE "http://api:8000/">>
        \o JoinSegs(ps) \o search

\* `http://api:8000/${parts.join("/")}${url.search}`
Target(ps, search) == <<"http://api:8000/">> \o JoinSegs(ps) \o search

RECURSIVE UpTo(_, _)
\* The tokens of s before the first token t.
UpTo(s, t) ==
    IF s = <<>> \/ Head(s) = t THEN <<>> ELSE <<Head(s)>> \o UpTo(Tail(s), t)

\* The URL parser applied to the target by fetch(): the path ends at the
\* first "?", a raw space in the path is percent-encoded.
EncodePathToken(t) == IF t = " " THEN "%20" ELSE t

ParseTarget(target) ==
    LET rest == Tail(target)
        path == UpTo(rest, "?")
    IN  [origin |-> Head(target),
         path   |-> <<"/">> \o [i \in 1..Len(path) |-> EncodePathToken(path[i])],
         search |-> SubSeq(rest, Len(path) + 1, Len(rest))]

\* Headers.prototype.delete / get / set.
HeadersDelete(h, name) == [n \in DOMAIN h \ {name} |-> h[n]]
HeadersGet(h, name)    == IF name \in DOMAIN h THEN Str(h[name]) ELSE JsNull
HeadersSet(h, name, v) == [n \in DOMAIN h \cup {name} |-> IF n = name THEN v ELSE h[n]]

\* The default applied with `||` instead of `??`.
AcceptOrDefaultFalsy(v) == IF Truthy(v) THEN v.chars ELSE <<"application/json">>

\* headers.get("accept") ?? "application/json"
AcceptOrDefault(v) ==
    IF v.type \in {"null", "undefined"} THEN <<"application/json">> ELSE v.chars

\* The headers built from nothing instead of from req.headers.
OutHeadersFresh(inHeaders) ==
    LET h0 == [n \in {} |-> <<>>]
    IN  HeadersSet(h0, "accept", AcceptOrDefault(HeadersGet(inHeaders, "accept")))

\* Lines 14-18: the headers handed to fetch().
OutHeaders(inHeaders) ==
    LET h1 == HeadersDelete(inHeaders, "host")
        h2 == HeadersDelete(h1, "connection")
    IN  HeadersSet(h2, "accept", AcceptOrDefault(HeadersGet(h2, "accept")))

\* req.method !== "GET" && req.method !== "HEAD"
ReadsBody(method) == method # "GET" /\ method # "HEAD"

RECURSIVE Concat(_)
Concat(chunks) ==
    IF chunks = <<>> THEN <<>> ELSE Head(chunks) \o Concat(Tail(chunks))

\* The body read as text and encoded again: UTF-8 decoding replaces every
\* byte that is no valid UTF-8 (here: every byte above 127) by U+FFFD.
TextRoundTrip(chunks) ==
    LET bytes == Concat(chunks)
        Enc(b) == IF b > 127 THEN <<239, 191, 189>> ELSE <<b>>
    IN  [type |-> "bytes", bytes |-> Concat([i \in 1..Len(bytes) |-> Enc(bytes[i])])]

\* await req.arrayBuffer(): the bytes of every chunk of the stream, in order.
ArrayBuffer(chunks) == [type |-> "bytes", bytes |-> Concat(chunks)]

\* fetch(target, { method: req.method, headers, body }) as it is issued.
UpstreamRequest(r, ps, body) ==
    [method  |-> r.method,
     url     |-> ParseTarget(Target(ps, UrlSearch(r.rawSearch))),
     headers |-> OutHeaders(r.headers),
     body    |-> body]

\* Statuses with which a response has a null body.
NullBodyStatus == {101, 204, 205, 304}

\* The header sets of the responses the upstream sends.
ResponseHeaderChoices ==
    { [n \in {"content-type"} |-> <<"application/json">>],
      [n \in {"content-type", "set-cookie", "x-total"} |->
          CASE n = "content-type" -> <<"application/json">>
            [] n = "set-cookie"   -> <<"sid=2; HttpOnly">>
            [] n = "x-total"      -> <<"7">>] }

\* The responses the upstream sends.
WireResponses ==
    { [status  |-> st,
       headers |-> h,
       body    |-> IF st \in NullBodyStatus THEN <<>> ELSE <<123, 125>>] :
        st \in {200, 204, 304, 404, 500}, h \in ResponseHeaderChoices }

\* The Response fetch() fulfils with: its body is null when the request
\* method is HEAD or the status is a null body status.
FetchResponse(method, w) ==
    [type |-> "response", status |-> w.status, headers |-> w.headers,
     body |-> IF method = "HEAD" \/ w.status \in NullBodyStatus
              THEN JsNull ELSE [type |-> "stream", bytes |-> w.body]]

\* A rejected promise / a thrown error.
Rejected(name) == [type |-> "rejected", error |-> name]

\* The status left to the default of ResponseInit.
InitStatusDefault(up) == 200

\* status: upstream.status
InitStatus(up) == up.status

\* The copy without the cookies the upstream sets.
HeadersCopyNoSetCookie(h) == [n \in DOMAIN h \ {"set-cookie"} |-> h[n]]

\* new Headers(upstream.headers): a new Headers object filled with every
\* name and value of the given one.
HeadersCopy(h) == [n \in DOMAIN h |-> h[n]]

\* new Response(upstream.body, { status: upstream.status, headers }): throws
\* a RangeError for a status outside 200..599 and a TypeError for a body with
\* a null body status.
NewResponse(up) ==
    LET st == InitStatus(up) IN
    IF st < 200 \/ st > 599 THEN Rejected("RangeError")
    ELSE IF up.body.type # "null" /\ st \in NullBodyStatus THEN Rejected("TypeError")
    ELSE [type |-> "response", status |-> st,
          headers |-> HeadersCopy(up.headers), body |-> up.body]

\* The rejection of fetch() answered with a Response instead of propagating.
OnFetchRejectSwallowed(err) ==
    [type |-> "response", status |-> 200, headers |-> <<>>, body |-> JsNull]

\* proxy() has no try/catch: a rejection of fetch() rejects proxy().
OnFetchReject(err) == err

\* A request arrives at the route.  The router calls the exported function
\* for its method, which returns proxy(req, ctx): proxy() runs up to `await
\* getPathParts(ctx)`.  Without such a function the router answers itself.
Invoke ==
    /\ gwPc = "idle"
    /\ \E r \in InboundRequests : req' = r
    /\ handler' = RouteHandler(req'.method)
    /\ IF handler' = NoHandler
       THEN /\ gwPc' = "done"
            /\ result' = RouterResponse(req'.method)
       ELSE /\ gwPc' = "params"
            /\ UNCHANGED result
    /\ UNCHANGED <<parts, bodyUsed, upstreamReqs, upstream>>
    /\ UNCHANGED restOfGw

\* ctx.params has resolved: lines 10-23 up to the next await, which is
\* req.arrayBuffer() when the body is read and fetch() otherwise.
ParamsResolved ==
    /\ gwPc = "params"
    /\ parts' = GetPathParts(RouteParams(req.rawPath))
    /\ IF ReadsBody(req.method)
       THEN /\ gwPc' = "body"
            /\ UNCHANGED upstreamReqs
       ELSE /\ gwPc' = "fetch"
            /\ upstreamReqs' = Append(upstreamReqs,
                                      UpstreamRequest(req, parts', Undefined))
    /\ UNCHANGED <<req, handler, bodyUsed, upstream, result>>
    /\ UNCHANGED restOfGw

\* req.arrayBuffer() has resolved: fetch() is issued with the bytes.
BodyRead ==
    /\ gwPc = "body"
    /\ bodyUsed' = TRUE
    /\ gwPc' = "fetch"
    /\ upstreamReqs' = Append(upstreamReqs,
                              UpstreamRequest(req, parts, ArrayBuffer(req.body)))
    /\ UNCHANGED <<req, handler, parts, upstream, result>>
    /\ UNCHANGED restOfGw

\* req.arrayBuffer() rejects (the client went away): proxy() rejects.
BodyReadFails ==
    /\ gwPc = "body"
    /\ bodyUsed' = TRUE
    /\ gwPc' = "done"
    /\ result' = Rejected("AbortError")
    /\ UNCHANGED <<req, handler, parts, upstreamReqs, upstream>>
    /\ UNCHANGED restOfGw

\* fetch() fulfils with the upstream's response: lines 31-36.
UpstreamResponds(w) ==
    /\ gwPc = "fetch"
    /\ upstream' = FetchResponse(req.method, w)
    /\ result' = NewResponse(upstream')
    /\ gwPc' = "done"
    /\ UNCHANGED <<req, handler, parts, bodyUsed, upstreamReqs>>
    /\ UNCHANGED restOfGw

\* fetch() rejects: the upstream is unreachable or the connection failed
\* before a response head arrived.
UpstreamFails ==
    /\ gwPc = "fetch"
    /\ upstream' = Rejected("TypeError: fetch failed")
    /\ result' = OnFetchReject(upstream')
    /\ gwPc' = "done"
    /\ UNCHANGED <<req, handler, parts, bodyUsed, upstreamReqs>>
    /\ UNCHANGED restOfGw

InitGateway == InitPage /\ InitProxy /\ InitCalls /\ InitViews

NextGateway ==
    \/ Invoke
    \/ ParamsResolved
    \/ BodyRead
    \/ BodyReadFails
    \/ \E w \in WireResponses : UpstreamResponds(w)
    \/ UpstreamFails

SpecGateway == InitGateway /\ [][NextGateway]_vars

(***************************************************************************)
(* The gateway: the claims.                                                *)
(***************************************************************************)
\* C6: for every response fetch() fulfils with, proxy() returns a Response
\* whose status is the upstream status, success and error classes alike.
C6_StatusRelayed ==
    upstream.type = "response" =>
        /\ result.type = "response"
        /\ result.status = upstream.status

\* C6 witness: an upstream 404 has been relayed as 404.
C6_Witness ==
    /\ gwPc = "done"
    /\ upstream.type = "response" /\ upstream.status = 404
    /\ result.type = "response" /\ result.status = 404

\* C7: the headers of every upstream request hold no `host` and no
\* `connection`, and hold `accept` with the inbound value when the client
\* sent one and application/json otherwise.
C7_RequestHeaders ==
    \A i \in 1..Len(upstreamReqs) :
        LET h == upstreamReqs[i].headers IN
        /\ "host" \notin DOMAIN h
        /\ "connection" \notin DOMAIN h
        /\ "accept" \in DOMAIN h
        /\ h["accept"] = IF "accept" \in DOMAIN req.headers
                         THEN req.headers["accept"]
                         ELSE <<"application/json">>

\* C7 witness: a request with host and connection and an empty accept value
\* has been forwarded, its accept value still empty.
C7_Witness ==
    /\ Len(upstreamReqs) = 1
    /\ {"host", "connection", "accept"} \subseteq DOMAIN req.headers
    /\ req.headers["accept"] = <<>>
    /\ upstreamReqs[1].headers["accept"] = <<>>

\* C8: the URL of every upstream request carries the inbound path and the
\* inbound query exactly as received, percent-encoded characters included.
C8_PathAndQueryPreserved ==
    \A i \in 1..Len(upstreamReqs) :
        /\ upstreamReqs[i].url.path = <<"/">> \o JoinSegs(req.rawPath)
        /\ upstreamReqs[i].url.search = req.rawSearch

RECURSIVE TotalLen(_)
TotalLen(chunks) ==
    IF chunks = <<>> THEN 0 ELSE Len(Head(chunks)) + TotalLen(Tail(chunks))

\* bytes holds the bytes of the chunks, each at its place, and nothing else.
HoldsExactly(bytes, chunks) ==
    /\ Len(bytes) = TotalLen(chunks)
    /\ \A i \in 1..Len(chunks) : \A j \in 1..Len(chunks[i]) :
          bytes[TotalLen(SubSeq(chunks, 1, i - 1)) + j] = chunks[i][j]

\* C9: for GET and HEAD the inbound body is not read and the upstream request
\* has no body; for every other method the body of the upstream request is
\* the inbound body byte for byte, an empty body included.
C9_BodyForwarded ==
    req.type = "request" =>
        IF req.method \in {"GET", "HEAD"}
        THEN /\ ~bodyUsed
             /\ \A i \in 1..Len(upstreamReqs) : upstreamReqs[i].body = Undefined
        ELSE \A i \in 1..Len(upstreamReqs) :
                /\ upstreamReqs[i].body.type = "bytes"
                /\ HoldsExactly(upstreamReqs[i].body.bytes, req.body)

\* C9 witness: a POST whose body holds a byte above 127 has been forwarded.
C9_Witness ==
    /\ req.type = "request" /\ req.method = "POST"
    /\ req.body = << <<200, 65>> >>
    /\ Len(upstreamReqs) = 1
    /\ upstreamReqs[1].body = [type |-> "bytes", bytes |-> <<200, 65>>]

\* C10: when fetch() rejects, proxy() ends rejected, not with a Response, and
\* no invocation issues more than one upstream request.
C10_UpstreamFailure ==
    /\ Len(upstreamReqs) <= 1
    /\ upstream.type = "rejected" =>
          /\ gwPc = "done"
          /\ result.type = "rejected"
          /\ Len(upstreamReqs) = 1

\* C10 witness: the upstream was unreachable and proxy() has rejected.
C10_Witness ==
    /\ upstream.type = "rejected"
    /\ result.type = "rejected"
    /\ Len(upstreamReqs) = 1

(***************************************************************************)
(* loadBlock / wrap: the claims about the shapes of a response.            *)
(***************************************************************************)
\* C11: in a live run, a success response whose JSON payload is no object
\* with a list under `items` puts its block into Failed.
C11_MisshapenFails ==
    [][\A b \in Blocks : \A o \in MisshapenOutcomes :
         (alive[1] /\ Settle(1, b, o)) => IsFailed(blocks'[b])]_vars

\* C12: in a live run, a success response whose body is no JSON puts its
\* block into Failed with a non-empty error detail.
C12_NonJsonFails ==
    [][\A b \in Blocks : \A o \in NonJsonOutcomes :
         (alive[1] /\ Settle(1, b, o))
             => (IsFailed(blocks'[b]) /\ blocks'[b].error # <<>>)]_vars

\* C12 witness: a block that failed on the SyntaxError of res.json().
C12_Witness ==
    /\ alive[1]
    /\ \E b \in Blocks :
          /\ wrapPc[1][b] = "fulfilled"
          /\ blocks[b] = Failed(<<"SyntaxError: Unexpected token">>)

\* The detail the claim describes: the status code, the status text and the
\* body text, separated by single spaces, a part that is missing left out.
ExpectedDetail(o) ==
    LET code == <<ToString(o.status)>>
        text == IF o.text.ok THEN o.text.chars ELSE <<>>
    IN  IF text # <<>> THEN code \o <<" ">> \o o.statusText \o <<" ">> \o text
        ELSE IF o.statusText # <<>> THEN code \o <<" ">> \o o.statusText
        ELSE code

\* C13: in a live run, a response with a non-success status puts its block
\* into Failed with the detail made of code, status text and body text (of
\* code and status text when the body text cannot be read).
C13_ErrorStatusFails ==
    [][\A b \in Blocks : \A o \in ErrorStatusOutcomes :
         (alive[1] /\ Settle(1, b, o))
             => blocks'[b] = Failed(ExpectedDetail(o))]_vars

\* C13 witness: a block failed on a 500 whose body text could not be read.
C13_Witness ==
    /\ alive[1]
    /\ \E b \in Blocks :
          blocks[b] = Failed(<<"500", " ", "Internal Server Error">>)

\* C14: in a live run, a fetch that rejects puts its block into Failed with
\* loading = false, no items and the error's message, or "Error" when the
\* error has none.
C14_TransportErrorFails ==
    [][\A b \in Blocks : \A o \in RejectOutcomes :
         (alive[1] /\ Settle(1, b, o))
             => blocks'[b] =
                  [loading |-> FALSE, items |-> Arr(<<>>),
                   error |-> IF o.message = <<>> THEN <<"Error">>
                             ELSE o.message]]_vars

\* C14 witness: a block failed on an error without a message.
C14_Witness ==
    /\ alive[1]
    /\ \E b \in Blocks :
          /\ wrapPc[1][b] = "fulfilled"
          /\ blocks[b] = Failed(<<"Error">>)

(***************************************************************************)
(* The gateway: the claims about methods and headers.                      *)
(***************************************************************************)
\* C15: a request with any of GET, HEAD, POST, PUT, PATCH, DELETE, on any
\* path under the prefix, is given to an exported handler, and whatever the
\* method it is proxy() that handles it: the invocation ends only with what
\* proxy() returns after its one upstream request, or with proxy()'s
\* rejection.
C15_MethodsAccepted ==
    (req.type = "request" /\ req.method \in Methods) =>
        /\ handler \in Exports
        /\ gwPc \in {"params", "body", "fetch", "done"}
        /\ gwPc \in {"fetch", "done"} =>
              \/ /\ Len(upstreamReqs) = 1
                 /\ upstreamReqs[1].method = req.method
              \/ result.type = "rejected" /\ bodyUsed
        /\ result.type = "response" => upstream.type = "response"

\* C15 witness: a HEAD request has gone through proxy() to the upstream.
C15_Witness ==
    /\ req.type = "request" /\ req.method = "HEAD"
    /\ handler = "GET"
    /\ gwPc = "done"
    /\ Len(upstreamReqs) = 1 /\ upstreamReqs[1].method = "HEAD"
    /\ result.type = "response"

\* C16: every upstream request carries the method of the inbound request;
\* for an inbound DELETE without a body it goes to the inbound path with an
\* empty body, and the status proxy() returns is the status the upstream
\* answered with.
C16_MethodPreserved ==
    \A i \in 1..Len(upstreamReqs) :
        /\ upstreamReqs[i].method = req.method
        /\ (req.method = "DELETE" /\ req.body = <<>>) =>
              /\ upstreamReqs[i].url.path = <<"/">> \o JoinSegs(req.rawPath)
              /\ upstreamReqs[i].body = [type |-> "bytes", bytes |-> <<>>]
              /\ upstream.type = "response" =>
                    /\ result.type = "response"
                    /\ result.status = upstream.status

\* C17: every header of the inbound request other than host, connection and
\* accept is a header of the upstream request, under the same name and with
\* the same value, and the only header of the upstream request the inbound
\* request does not have is the defaulted accept.
C17_OtherHeadersPassThrough ==
    \A i \in 1..Len(upstreamReqs) :
        LET h == upstreamReqs[i].headers IN
        /\ \A n \in DOMAIN req.headers \ {"host", "connection", "accept"} :
              n \in DOMAIN h /\ h[n] = req.headers[n]
        /\ \A n \in DOMAIN h \ DOMAIN req.headers :
              n = "accept" /\ h[n] = <<"application/json">>

\* C17 witness: a request with host, cookie and authorization and without
\* accept has been forwarded with cookie, authorization and the default.
C17_Witness ==
    /\ Len(upstreamReqs) = 1
    /\ DOMAIN req.headers = {"host", "cookie", "authorization"}
    /\ upstreamReqs[1].headers =
          [n \in {"cookie", "authorization", "accept"} |->
              IF n = "accept" THEN <<"application/json">> ELSE req.headers[n]]

\* C18: the Response proxy() returns for an upstream response has the
\* headers of the upstream response, every name with its value and no other
\* name, and its body is the body of the upstream response.
C18_ResponseHeadersAndBody ==
    upstream.type = "response" =>
        /\ result.type = "response"
        /\ DOMAIN result.headers = DOMAIN upstream.headers
        /\ \A n \in DOMAIN upstream.headers :
              result.headers[n] = upstream.headers[n]
        /\ result.body = upstream.body

\* C18 witness: a response with a cookie and a body has been relayed.
C18_Witness ==
    /\ gwPc = "done"
    /\ upstream.type = "response"
    /\ "set-cookie" \in DOMAIN upstream.headers
    /\ upstream.body = [type |-> "stream", bytes |-> <<123, 125>>]
    /\ result.type = "response"
    /\ result.headers["set-cookie"] = <<"sid=2; HttpOnly">>
    /\ result.body = upstream.body

(***************************************************************************)
(* DeepAnalysisPage: the claims about concurrency.                         *)
(***************************************************************************)
\* C19: an execution of the effect that has not started has issued no fetch,
\* and one that has started has issued the fetch of every block, in the
\* order the blocks are listed, in the very step that started it: before any
\* settlement, and whatever settles or never settles afterwards.  A fetch
\* still awaited can settle whatever the state of its siblings.
C19_AllIssuedAtOnce ==
    \A r \in Runs :
        IF runPc[r] = "idle"
        THEN issued[r] = <<>> /\ \A b \in Blocks : wrapPc[r][b] = "idle"
        ELSE /\ issued[r] = [i \in 1..NBlocks |-> i]
             /\ \A b \in Blocks :
                   /\ wrapPc[r][b] # "idle"
                   /\ wrapPc[r][b] = "awaiting" =>
                         ENABLED Settle(r, b, Reject(<<"Failed to fetch">>))

\* C19 witness: in a live run the fetch of the first block has not settled
\* and the last block, issued after it, has settled and is Loaded.
C19_Witness ==
    \E r \in Runs :
        /\ alive[r]
        /\ issued[r] = [i \in 1..NBlocks |-> i]
        /\ wrapPc[r][1] = "awaiting" /\ IsPending(blocks[1])
        /\ wrapPc[r][NBlocks] = "fulfilled" /\ IsLoaded(blocks[NBlocks])
        /\ writer[NBlocks] = r

\* The outcome of a fetch that answers 200 with the items [Row1].
ItemsOutcome ==
    Response(200, <<"OK">>, Text(<<"{..}">>), Json(Obj([items |-> Arr(<<Row1>>)])))

\* C20: in a live run the step in which the fetch of a block settles is the
\* step in which the block's state changes: to Failed when the fetch failed,
\* to Loaded with the fetched items when it delivered items, the other
\* blocks (those still Pending included) and the aggregate flag left as they
\* are.  As long as a fetch of the live run is awaited the aggregate flag says
\* loading; the step that ends the run sets it and changes no block.
C20_IncrementalUpdate ==
    /\ [](\A r \in Runs :
            (alive[r] /\ \E b \in Blocks : wrapPc[r][b] = "awaiting")
                => loadingAll = TRUE)
    /\ [][\A r \in Runs :
            /\ \A b \in Blocks : \A o \in FetchOutcomes :
                  (alive[r] /\ WrapResumes(r, b) /\ Settle(r, b, o)) =>
                      /\ ~IsPending(blocks'[b])
                      /\ o.kind = "reject" =>
                            blocks'[b] = Failed(o.message)
                      /\ o = ItemsOutcome =>
                            blocks'[b] = Loaded(Arr(<<Row1>>))
                      /\ \A a \in Blocks \ {b} : blocks'[a] = blocks[a]
                      /\ loadingAll' = loadingAll
            /\ (alive[r] /\ Finish(r)) =>
                  /\ loadingAll' = FALSE
                  /\ blocks' = blocks]_vars

\* C20 witness: in a live run the last block has failed, the first block is
\* still Pending with its fetch awaited, and the aggregate flag says loading.
C20_Witness ==
    \E r \in Runs :
        /\ alive[r] /\ runPc[r] = "awaitAll"
        /\ blocks[NBlocks] = Failed(<<"Failed to fetch">>)
        /\ writer[NBlocks] = r
        /\ wrapPc[r][1] = "awaiting" /\ blocks[1] = Pending
        /\ loadingAll = TRUE

\* C21: in every reachable state every block has items only when it is Loaded
\* (loading = false and no error) and an error detail only when it is not
\* loading; a Pending block has no items and no error.
C21_BlockStateShape ==
    \A b \in Blocks :
        LET s == blocks[b] IN
        /\ s.items # Arr(<<>>) => IsLoaded(s)
        /\ HasError(s) => (~s.loading /\ s.items = Arr(<<>>))
        /\ IsPending(s) => (s.items = Arr(<<>>) /\ ~HasError(s))

\* C21 witness: in a second run one block is Loaded with items while another,
\* reset by the start of the run, is Pending again.
C21_Witness ==
    /\ effectRuns > 1 /\ alive[effectRuns]
    /\ \E b1, b2 \in Blocks :
          /\ writer[b1] = effectRuns /\ writer[b2] = effectRuns
          /\ blocks[b1] = Loaded(Arr(<<Row1>>))
          /\ blocks[b2] = Pending

(***************************************************************************)
(* The gateway under concurrent requests.  route.ts has no variable at     *)
(* module level: every variable of proxy() belongs to one invocation.      *)
(***************************************************************************)
\* The requests the concurrent invocations are given.
ConcRequests ==
    { [type |-> "request", method |-> "GET", rawPath |-> << <<"users">> >>,
       rawSearch |-> <<"?", "limit=200">>,
       headers |-> [n \in {"host", "cookie"} |->
                      IF n = "host" THEN <<"dash.example">> ELSE <<"sid=1">>],
       body |-> <<>>],
      [type |-> "request", method |-> "POST",
       rawPath |-> << <<"a", "%20", "b">> >>, rawSearch |-> <<>>,
       headers |-> [n \in {"accept", "authorization"} |->
                      IF n = "accept" THEN <<"text/html">> ELSE <<"Bearer t">>],
       body |-> << <<200, 65>> >>],
      [type |-> "request", method |-> "DELETE", rawPath |-> << <<"users">> >>,
       rawSearch |-> <<>>, headers |-> [n \in {} |-> <<>>], body |-> <<>>] }

\* The responses the upstream sends to them.
ConcResponses ==
    { w \in WireResponses :
        \/ w.status = 200 /\ "set-cookie" \in DOMAIN w.headers
        \/ w.status = 404 /\ "set-cookie" \notin DOMAIN w.headers }

\* `target` and `headers` as variables of the module, one for all invocations.
ScopeOfModule(i) == 1

\* `const target`, `const headers` (lines 12, 14): variables of the invocation.
ScopeOf(i) == i

\* fetch(target, { method: req.method, headers, body }) of invocation i, with
\* target and headers as its scope holds them.
CallFetchInit(i, body) ==
    [method  |-> calls[i].req.method,
     url     |-> scopes[ScopeOf(i)].target,
     headers |-> scopes[ScopeOf(i)].headers,
     body    |-> body]

\* A request arrives while other invocations are under way.
CallInvoke(i) ==
    /\ calls[i].pc = "idle"
    /\ \E r \in ConcRequests :
          calls' = [calls EXCEPT ![i].req = r,
                                 ![i].pc = IF RouteHandler(r.method) = NoHandler
                                           THEN "done" ELSE "params",
                                 ![i].result =
                                     IF RouteHandler(r.method) = NoHandler
                                     THEN RouterResponse(r.method)
                                     ELSE NoRequest]
    /\ UNCHANGED scopes
    /\ UNCHANGED restOfConc

\* ctx.params of invocation i has resolved: lines 10-23 up to the next await.
CallParamsResolved(i) ==
    /\ calls[i].pc = "params"
    /\ LET r  == calls[i].req
           ps == GetPathParts(RouteParams(r.rawPath))
       IN  /\ scopes' = [scopes EXCEPT ![ScopeOf(i)] =
                 [target  |-> ParseTarget(Target(ps, UrlSearch(r.rawSearch))),
                  headers |-> OutHeaders(r.headers)]]
           /\ IF ReadsBody(r.method)
              THEN calls' = [calls EXCEPT ![i].pc = "body"]
              ELSE calls' = [calls EXCEPT
                               ![i].pc = "fetch",
                               ![i].sent = [method  |-> r.method,
                                            url     |-> scopes'[ScopeOf(i)].target,
                                            headers |-> scopes'[ScopeOf(i)].headers,
                                            body    |-> Undefined]]
    /\ UNCHANGED restOfConc

\* req.arrayBuffer() of invocation i has resolved: fetch() is issued.
CallBodyRead(i) ==
    /\ calls[i].pc = "body"
    /\ calls' = [calls EXCEPT
                   ![i].pc = "fetch",
                   ![i].sent = CallFetchInit(i, ArrayBuffer(calls[i].req.body))]
    /\ UNCHANGED scopes
    /\ UNCHANGED restOfConc

\* req.arrayBuffer() of invocation i rejects: the invocation rejects.
CallBodyReadFails(i) ==
    /\ calls[i].pc = "body"
    /\ calls' = [calls EXCEPT ![i].pc = "done",
                              ![i].result = Rejected("AbortError")]
    /\ UNCHANGED scopes
    /\ UNCHANGED restOfConc

\* fetch() of invocation i fulfils: lines 31-36.
CallUpstreamResponds(i, w) ==
    /\ calls[i].pc = "fetch"
    /\ LET up == FetchResponse(calls[i].req.method, w)
       IN  calls' = [calls EXCEPT ![i].pc = "done",
                                  ![i].up = up,
                                  ![i].result = NewResponse(up)]
    /\ UNCHANGED scopes
    /\ UNCHANGED restOfConc

\* fetch() of invocation i rejects.
CallUpstreamFails(i) ==
    /\ calls[i].pc = "fetch"
    /\ LET up == Rejected("TypeError: fetch failed")
       IN  calls' = [calls EXCEPT ![i].pc = "done",
                                  ![i].up = up,
                                  ![i].result = OnFetchReject(up)]
    /\ UNCHANGED scopes
    /\ UNCHANGED restOfConc

NextCalls ==
    \/ \E i \in Calls : CallInvoke(i)
    \/ \E i \in Calls : CallParamsResolved(i)
    \/ \E i \in Calls : CallBodyRead(i)
    \/ \E i \in Calls : CallBodyReadFails(i)
    \/ \E i \in Calls, w \in ConcResponses : CallUpstreamResponds(i, w)
    \/ \E i \in Calls : CallUpstreamFails(i)

SpecCalls == InitGateway /\ [][NextCalls]_vars

\* C22: whatever the other invocations do and however their steps are
\* interleaved, the request an invocation issues is determined by its own
\* inbound request (method, path and query, headers, body), and what it
\* returns by the upstream response to its own request.
C22_Reentrant ==
    \A i \in Calls :
        LET c == calls[i] IN
        /\ c.sent # NoRequest =>
              /\ c.sent.method = c.req.method
              /\ c.sent.url = ParseTarget(<<"http://api:8000/">>
                                \o JoinSegs(RouteParams(c.req.rawPath))
                                \o c.req.rawSearch)
              /\ c.sent.headers = OutHeaders(c.req.headers)
              /\ c.sent.body = IF c.req.method \in {"GET", "HEAD"}
                               THEN Undefined
                               ELSE [type |-> "bytes", bytes |-> Concat(c.req.body)]
        /\ c.up.type = "response" =>
              /\ c.result.type = "response"
              /\ c.result.status = c.up.status
              /\ c.result.headers = c.up.headers
              /\ c.result.body = c.up.body
        /\ c.up.type = "rejected" => c.result = c.up

\* C22 witness: the first invocation, a POST, was still reading its body when
\* the second, a GET, went through; both have ended, each with the response
\* to its own request.
C22_Witness ==
    /\ calls[1].pc = "done" /\ calls[1].req.method = "POST"
    /\ calls[1].sent # NoRequest /\ calls[2].sent # NoRequest
    /\ calls[1].sent.url.path = <<"/", "a", "%20", "b">>
    /\ calls[1].result.type = "response" /\ calls[1].result.status = 404
    /\ calls[2].pc = "done" /\ calls[2].req.method = "GET"
    /\ calls[2].sent.url.path = <<"/", "users">>
    /\ calls[2].result.type = "response" /\ calls[2].result.status = 200

\* C23: every upstream request goes to the scheme and authority
\* http://api:8000, whatever the method, the path segments, the query and
\* the headers of the inbound request, its host header included.
C23_FixedUpstream ==
    \A i \in 1..Len(upstreamReqs) :
        upstreamReqs[i].url.origin = "http://api:8000/"

\* C23 witness: a POST that names another host, with an encoded slash in its
\* path and a query, has been forwarded to http://api:8000.
C23_Witness ==
    /\ req.type = "request" /\ req.method = "POST"
    /\ "host" \in DOMAIN req.headers /\ req.headers["host"] = <<"dash.example">>
    /\ req.rawPath = << <<"a", "%2F", "b">> >>
    /\ req.rawSearch = <<"?", "q=a", "%2F", "b">>
    /\ Len(upstreamReqs) = 1
    /\ upstreamReqs[1].url.origin = "http://api:8000/"
    /\ upstreamReqs[1].url.path = <<"/", "a", "/", "b">>

(***************************************************************************)
(* OverviewPage: load()  (app/(app)/page.tsx, lines 123-165).              *)
(***************************************************************************)
Num(n) == [type |-> "number", val |-> n]

\* Number(v) for the values a payload holds here.
ToNumber(v) ==
    CASE v.type = "number" -> v.val
      [] v.type = "null"   -> 0
      [] OTHER             -> "NaN"

Kpis1 == Obj([malware_matches |-> Num(1)])

\* What apiFetch("/overview/kpis") can come to.
KpiOutcomes ==
    { Reject(<<"Failed to fetch">>),
      Response(500, <<"Internal Server Error">>, Text(<<"boom">>), NoJson),
      Response(200, <<"OK">>, Text(<<"{..}">>), Json(Kpis1)),
      Response(200, <<"OK">>, Text(<<"<html>">>), NoJson) }

\* What apiFetch("/overview/suspicious?limit=200") can come to.
SuspOutcomes ==
    { Reject(<<"Failed to fetch">>),
      Response(500, <<"Internal Server Error">>, Text(<<"boom">>), NoJson),
      Response(200, <<"OK">>, Text(<<"{..}">>),
               Json(Obj([items |-> Arr(<<Row1>>), comparison_cnt |-> Num(3)]))),
      Response(200, <<"OK">>, Text(<<"{}">>), Json(Obj(<<>>))),
      Response(200, <<"OK">>, Text(<<"<html>">>), NoJson) }

Settled(o) == [state |-> "settled", o |-> o]

\* A state setter is called with v; `late` records a call after the cleanup.
SetState(ov, name, v) ==
    [ov EXCEPT ![name] = v,
               !.late = IF ov.cancelled THEN @ \cup {name} ELSE @]

\* finally { if (!cancelled) setLoading(false); } and load() returns.
OvFinally(ov) ==
    [(IF ~ov.cancelled THEN SetState(ov, "loading", FALSE) ELSE ov)
        EXCEPT !.pc = "done"]

\* catch (e) { if (!cancelled) setErr(e?.message || "Failed to load overview") }
OvCatch(ov, msg) ==
    OvFinally(IF ~ov.cancelled
              THEN SetState(ov, "err",
                            IF msg # <<>> THEN msg
                            ELSE <<"Failed to load overview">>)
              ELSE ov)

\* Lines 142-150: the suspicious response, up to the next await.
OvSuspPart(ov) ==
    IF ResOk(ov.suspRes.o)
    THEN [ov EXCEPT !.pc = "awaitSuspJson"]
    ELSE OvFinally(SetState(SetState(ov, "items", Arr(<<>>)),
                            "comparisonCnt", 0))

\* Promise.all([kpi, susp]) after one of the two fetches has settled with o:
\* it rejects with the first rejection and fulfils when both have fulfilled.
OvAllAfter(ov, o, other) ==
    IF ov.all # Unsettled THEN ov.all
    ELSE IF o.kind = "reject" THEN [state |-> "rejected", message |-> o.message]
    ELSE IF other # Unsettled THEN [state |-> "fulfilled"]
    ELSE Unsettled

\* The effect runs: load() up to `await Promise.all`, both fetches issued.
OvStart ==
    /\ overview.pc = "idle"
    /\ overview' = [SetState(SetState(overview, "loading", TRUE), "err", <<>>)
                       EXCEPT !.pc = "awaitAll"]
    /\ UNCHANGED restOfOverview

\* The KPI fetch settles.
OvKpiSettles(o) ==
    /\ overview.pc # "idle"
    /\ overview.kpiRes = Unsettled
    /\ overview' = [overview EXCEPT
                      !.kpiRes = Settled(o),
                      !.all = OvAllAfter(overview, o, overview.suspRes)]
    /\ UNCHANGED restOfOverview

\* The suspicious fetch settles.
OvSuspSettles(o) ==
    /\ overview.pc # "idle"
    /\ overview.suspRes = Unsettled
    /\ overview' = [overview EXCEPT
                      !.suspRes = Settled(o),
                      !.all = OvAllAfter(overview, o, overview.kpiRes)]
    /\ UNCHANGED restOfOverview

\* load() resumes after `await Promise.all`: lines 137-141 up to the next
\* await, or the catch when Promise.all rejected.
OvResumeAll ==
    /\ overview.pc = "awaitAll"
    /\ overview.all # Unsettled
    /\ overview' =
         IF overview.all.state = "rejected"
         THEN OvCatch(overview, overview.all.message)
         ELSE IF overview.cancelled THEN OvFinally(overview)
         ELSE IF ~ResOk(overview.kpiRes.o)
         THEN OvSuspPart(SetState(overview, "err",
                  <<"KPI request failed (", ToString(overview.kpiRes.o.status), ")">>))
         ELSE [overview EXCEPT !.pc = "awaitKpiJson"]
    /\ UNCHANGED restOfOverview

\* load() resumes after `await kpiRes.json()`: setKpis, then the suspicious
\* response.
OvKpiJson ==
    /\ overview.pc = "awaitKpiJson"
    /\ LET j == overview.kpiRes.o.json
       IN  overview' =
             IF ~j.ok THEN OvCatch(overview, <<"SyntaxError: Unexpected token">>)
             ELSE OvSuspPart(SetState(overview, "kpis", j.value))
    /\ UNCHANGED restOfOverview

\* load() resumes after `await suspRes.json()`: setItems, setComparisonCnt.
OvSuspJson ==
    /\ overview.pc = "awaitSuspJson"
    /\ LET j == overview.suspRes.o.json
       IN  overview' =
             IF ~j.ok THEN OvCatch(overview, <<"SyntaxError: Unexpected token">>)
             ELSE IF j.value.type \in {"null", "undefined"}
             THEN OvCatch(overview, <<"TypeError: Cannot read properties">>)
             ELSE LET data  == j.value
                      its   == IF data.type = "object"
                               THEN GetProp(data, "items") ELSE Undefined
                      cnt   == IF data.type = "object"
                               THEN GetProp(data, "comparison_cnt") ELSE Undefined
                  IN  OvFinally(
                        SetState(
                          SetState(overview, "items",
                                   IF its.type = "array" THEN its ELSE Arr(<<>>)),
                          "comparisonCnt",
                          IF cnt.type \in {"null", "undefined"} THEN 0
                          ELSE ToNumber(cnt)))
    /\ UNCHANGED restOfOverview

\* The cleanup the effect returned: cancelled = true.
OvCleanup ==
    /\ overview.pc # "idle"
    /\ ~overview.cancelled
    /\ overview' = [overview EXCEPT !.cancelled = TRUE]
    /\ UNCHANGED restOfOverview

NextOverview ==
    \/ OvStart
    \/ \E o \in KpiOutcomes : OvKpiSettles(o)
    \/ \E o \in SuspOutcomes : OvSuspSettles(o)
    \/ OvResumeAll
    \/ OvKpiJson
    \/ OvSuspJson
    \/ OvCleanup

SpecOverview == InitGateway /\ [][NextOverview]_vars

\* C24: once the cleanup has set cancelled = true, load() calls none of
\* setKpis, setItems, setComparisonCnt, setErr and setLoading.
C24_NoSetterAfterCancel == overview.late = {}

\* C25: when the KPI request succeeded and the suspicious request failed,
\* with a non-success status or with a transport error, a load() that has
\* ended without being cancelled has set kpis and shows no error; and
\* loading is false only when both requests have settled.
C25_SuspiciousOptional ==
    /\ ( /\ overview.pc = "done" /\ ~overview.cancelled
         /\ overview.kpiRes # Unsettled /\ overview.suspRes # Unsettled
         /\ overview.kpiRes.o.kind = "response"
         /\ ResOk(overview.kpiRes.o) /\ overview.kpiRes.o.json.ok
         /\ \/ overview.suspRes.o.kind = "reject"
            \/ ~ResOk(overview.suspRes.o) )
       => (overview.kpis = Kpis1 /\ overview.err = <<>>)
    /\ ~overview.loading =>
          (overview.kpiRes # Unsettled /\ overview.suspRes # Unsettled)

(***************************************************************************)
(* ScansPage: load()  (scans/page.tsx, lines 69-96).  The effect returns   *)
(* no cleanup and load() has no try/catch.                                 *)
(***************************************************************************)
\* What a fetch of a list can come to.
ListOutcomes ==
    { Reject(<<"Failed to fetch">>),
      Response(500, <<"Internal Server Error">>, Text(<<"boom">>), NoJson),
      Response(200, <<"OK">>, Text(<<"{..}">>), Json(Obj([items |-> Arr(<<Row1>>)]))),
      Response(200, <<"OK">>, Text(<<"<html>">>), NoJson) }

\* A state setter of ScansPage is called with v; `late` records a call after
\* the view was torn down.
ScSet(sc, name, v) ==
    [sc EXCEPT ![name] = v,
               !.late = IF ~sc.mounted THEN @ \cup {name} ELSE @]

\* data.items || []  of a parsed list payload.
ItemsOrEmpty(data) ==
    LET its == IF data.type = "object" THEN GetProp(data, "items") ELSE Undefined
    IN  IF Truthy(its) THEN its ELSE Arr(<<>>)

\* load() rejects: nothing awaits or catches the promise `load()` returned.
ScReject(sc) == [sc EXCEPT !.pc = "rejected"]

\* Lines 86-93: the NAS response up to the next await, or to the end.
ScNasPart(sc) ==
    IF ResOk(sc.nasRes.o)
    THEN [sc EXCEPT !.pc = "awaitNasJson"]
    ELSE [ScSet(ScSet(sc, "nasItems", Arr(<<>>)), "loading", FALSE)
             EXCEPT !.pc = "done"]

\* Lines 79-84: the scan response up to the next await.
ScScanPart(sc) ==
    IF ResOk(sc.scanRes.o)
    THEN [sc EXCEPT !.pc = "awaitScanJson"]
    ELSE ScNasPart(ScSet(sc, "scanItems", Arr(<<>>)))

\* The effect runs: load() up to `await Promise.all`, both fetches issued.
ScStart ==
    /\ scans.pc = "idle" /\ scans.mounted
    /\ scans' = [ScSet(scans, "loading", TRUE) EXCEPT !.pc = "awaitAll"]
    /\ UNCHANGED restOfScans

ScScanSettles(o) ==
    /\ scans.pc # "idle"
    /\ scans.scanRes = Unsettled
    /\ scans' = [scans EXCEPT !.scanRes = Settled(o),
                              !.all = OvAllAfter(scans, o, scans.nasRes)]
    /\ UNCHANGED restOfScans

ScNasSettles(o) ==
    /\ scans.pc # "idle"
    /\ scans.nasRes = Unsettled
    /\ scans' = [scans EXCEPT !.nasRes = Settled(o),
                              !.all = OvAllAfter(scans, o, scans.scanRes)]
    /\ UNCHANGED restOfScans

\* load() resumes after `await Promise.all`.
ScResumeAll ==
    /\ scans.pc = "awaitAll"
    /\ scans.all # Unsettled
    /\ scans' = IF scans.all.state = "rejected" THEN ScReject(scans)
                ELSE ScScanPart(scans)
    /\ UNCHANGED restOfScans

\* load() resumes after `await scanRes.json()`.
ScScanJson ==
    /\ scans.pc = "awaitScanJson"
    /\ LET j == scans.scanRes.o.json
       IN  scans' = IF ~j.ok \/ j.value.type \in {"null", "undefined"}
                    THEN ScReject(scans)
                    ELSE ScNasPart(ScSet(scans, "scanItems", ItemsOrEmpty(j.value)))
    /\ UNCHANGED restOfScans

\* load() resumes after `await nasRes.json()`.
ScNasJson ==
    /\ scans.pc = "awaitNasJson"
    /\ LET j == scans.nasRes.o.json
       IN  scans' = IF ~j.ok \/ j.value.type \in {"null", "undefined"}
                    THEN ScReject(scans)
                    ELSE [ScSet(ScSet(scans, "nasItems", ItemsOrEmpty(j.value)),
                                "loading", FALSE)
                             EXCEPT !.pc = "done"]
    /\ UNCHANGED restOfScans

\* The view is torn down.  The effect returned no cleanup: nothing of load()
\* learns of it.
ScUnmount ==
    /\ scans.pc # "idle" /\ scans.mounted
    /\ scans' = [scans EXCEPT !.mounted = FALSE]
    /\ UNCHANGED restOfScans

NextScans ==
    \/ ScStart
    \/ \E o \in ListOutcomes : ScScanSettles(o)
    \/ \E o \in ListOutcomes : ScNasSettles(o)
    \/ ScResumeAll
    \/ ScScanJson
    \/ ScNasJson
    \/ ScUnmount

SpecScans == InitGateway /\ [][NextScans]_vars

\* C26: after the view has been torn down, load() calls none of
\* setScanItems, setNasItems and setLoading.
C26_NoSetterAfterUnmount == scans.late = {}

(***************************************************************************)
(* EventsPage: load()  (users/page.tsx, lines 467-480).                    *)
(***************************************************************************)
\* json.items ?? []  of a parsed list payload.
ItemsOrEmptyNullish(data) ==
    LET its == IF data.type = "object" THEN GetProp(data, "items") ELSE Undefined
    IN  IF its.type \in {"null", "undefined"} THEN Arr(<<>>) ELSE its

\* The effect runs: load() up to `await apiFetch(...)`.
EvStart ==
    /\ events.pc = "idle"
    /\ events' = [events EXCEPT !.loading = TRUE, !.pc = "awaitFetch"]
    /\ UNCHANGED restOfEvents

\* The fetch settles and load() resumes: a rejection rejects load(), whose
\* promise nothing handles.
EvSettles(o) ==
    /\ events.pc = "awaitFetch"
    /\ events' =
         IF o.kind = "reject"
         THEN [events EXCEPT !.res = Settled(o), !.pc = "rejected"]
         ELSE IF ResOk(o)
         THEN [events EXCEPT !.res = Settled(o), !.pc = "awaitJson"]
         ELSE [events EXCEPT !.res = Settled(o), !.items = Arr(<<>>),
                             !.loading = FALSE, !.pc = "done"]
    /\ UNCHANGED restOfEvents

\* load() resumes after `await res.json()`.
EvJson ==
    /\ events.pc = "awaitJson"
    /\ LET j == events.res.o.json
       IN  events' =
             IF ~j.ok \/ j.value.type \in {"null", "undefined"}
             THEN [events EXCEPT !.pc = "rejected"]
             ELSE [events EXCEPT !.items = ItemsOrEmptyNullish(j.value),
                                 !.loading = FALSE, !.pc = "done"]
    /\ UNCHANGED restOfEvents

(***************************************************************************)
(* UsersPage: loadUsers() and the three calls that start it again          *)
(* (users/page.tsx, lines 43-137).                                         *)
(***************************************************************************)
Loads == 1..MaxLoads

\* The list the server holds when it answers the k-th loadUsers(): every
\* successful createUser before it has added a user.
Snapshot(k) == Arr([i \in 1..k |-> Obj([id |-> Num(i)])])

\* What apiFetch("/admin/users") of the k-th loadUsers() can come to.
LoadUsersOutcomes(k) ==
    { Reject(<<"Failed to fetch">>),
      Response(500, <<"Internal Server Error">>, Text(<<"boom">>), NoJson),
      Response(200, <<"OK">>, Text(<<"{..}">>), Json(Obj([items |-> Snapshot(k)]))),
      Response(200, <<"OK">>, Text(<<"{}">>), Json(Obj(<<>>))),
      Response(200, <<"OK">>, Text(<<"<html>">>), NoJson) }

\* What the request of createUser / updateUser / deleteUser can come to.
MutationOutcomes ==
    { Reject(<<"Failed to fetch">>),
      Response(403, <<"Forbidden">>, Text(<<"{detail}">>), NoJson),
      Response(200, <<"OK">>, Text(<<"{..}">>), Json(Obj(<<>>))) }

MutationKinds == {"createUser", "updateUser", "deleteUser"}

\* loadUsers() is called: lines 44-47 up to `await apiFetch(...)`.
LoadUsersCalled(up) ==
    [up EXCEPT !.loading = TRUE, !.error = JsNull,
               !.loads = Append(@, [pc |-> "awaitFetch", res |-> Unsettled])]

\* The mount effect: loadUsers().
UsMount ==
    /\ usersPage.loads = <<>>
    /\ usersPage' = LoadUsersCalled(usersPage)
    /\ UNCHANGED restOfUsers

\* createUser / updateUser / deleteUser is called with its preconditions met
\* (the form filled in, a user selected, the deletion confirmed): up to
\* `await apiFetch(...)`.
UsMutate(kind) ==
    /\ usersPage.loads # <<>>
    /\ Len(usersPage.loads) < MaxLoads
    /\ usersPage.mutation = NoMutation
    /\ usersPage' = [usersPage EXCEPT !.error = JsNull, !.message = JsNull,
                                      !.mutation = [kind |-> kind]]
    /\ UNCHANGED restOfUsers

\* The request of the call under way settles: on success the message is set
\* and loadUsers() is called, without being awaited.
UsMutateSettles(o) ==
    /\ usersPage.mutation # NoMutation
    /\ usersPage' =
         IF o.kind = "reject"
         THEN [usersPage EXCEPT !.mutation = NoMutation]
         ELSE IF ~ResOk(o)
         THEN [usersPage EXCEPT !.mutation = NoMutation,
                                !.error = Str(<<"User could not be ", "...">>)]
         ELSE LoadUsersCalled(
                [usersPage EXCEPT !.mutation = NoMutation,
                                  !.message = Str(<<"User ", "...">>)])
    /\ UNCHANGED restOfUsers

\* The fetch of the k-th loadUsers() settles and the invocation resumes.
UsLoadSettles(k, o) ==
    /\ k \in 1..Len(usersPage.loads)
    /\ usersPage.loads[k].pc = "awaitFetch"
    /\ usersPage' =
         IF o.kind = "reject"
         THEN [usersPage EXCEPT !.loads[k] = [pc |-> "rejected", res |-> Settled(o)]]
         ELSE IF ~ResOk(o)
         THEN [usersPage EXCEPT !.loads[k] = [pc |-> "done", res |-> Settled(o)],
                                !.error = Str(<<"Could not load users!">>),
                                !.loading = FALSE]
         ELSE [usersPage EXCEPT !.loads[k] = [pc |-> "awaitJson", res |-> Settled(o)]]
    /\ UNCHANGED restOfUsers

\* The k-th loadUsers() resumes after `await res.json()`.
UsLoadJson(k) ==
    /\ k \in 1..Len(usersPage.loads)
    /\ usersPage.loads[k].pc = "awaitJson"
    /\ LET j == usersPage.loads[k].res.o.json
       IN  usersPage' =
             IF ~j.ok \/ j.value.type \in {"null", "undefined"}
             THEN [usersPage EXCEPT !.loads[k].pc = "rejected"]
             ELSE [usersPage EXCEPT !.loads[k].pc = "done",
                                    !.users = ItemsOrEmptyNullish(j.value),
                                    !.setBy = k,
                                    !.loading = FALSE]
    /\ UNCHANGED restOfUsers

NextUsers ==
    \/ UsMount
    \/ \E kind \in MutationKinds : UsMutate(kind)
    \/ \E o \in MutationOutcomes : UsMutateSettles(o)
    \/ \E k \in Loads : \E o \in LoadUsersOutcomes(k) : UsLoadSettles(k, o)
    \/ \E k \in Loads : UsLoadJson(k)

SpecUsers == InitGateway /\ [][NextUsers]_vars

\* The loaders of the three pages, each run once.
NextLoaders ==
    \/ ScStart
    \/ \E o \in ListOutcomes : ScScanSettles(o)
    \/ \E o \in ListOutcomes : ScNasSettles(o)
    \/ ScResumeAll
    \/ ScScanJson
    \/ ScNasJson
    \/ EvStart
    \/ \E o \in ListOutcomes : EvSettles(o)
    \/ EvJson
    \/ UsMount
    \/ \E o \in LoadUsersOutcomes(1) : UsLoadSettles(1, o)
    \/ UsLoadJson(1)

SpecLoaders == InitGateway /\ [][NextLoaders]_vars

\* C27: no loader of ScansPage, EventsPage and UsersPage ends with its
\* promise rejected: each one that has ended has returned, with the loading
\* flag of its page false.
C27_LoadersReport ==
    /\ scans.pc # "rejected"
    /\ scans.pc = "done" => ~scans.loading
    /\ events.pc # "rejected"
    /\ events.pc = "done" => ~events.loading
    /\ \A k \in 1..Len(usersPage.loads) :
          /\ usersPage.loads[k].pc # "rejected"
          /\ usersPage.loads[k].pc = "done" => ~usersPage.loading

User1 == Obj([email |-> Str(<<"a@b.c">>), role |-> Str(<<"admin">>)])

Detail1 == Obj([detail |-> Str(<<"Not allowed">>)])

\* What apiFetch("/auth/me") can come to: the status, and a body that is the
\* user, an error detail, or no JSON.
AuthOutcomes ==
    { Reject(<<"Failed to fetch">>) } \cup
    { Response(st[1], <<st[2]>>, Text(<<"...">>), j) :
        st \in { <<200, "OK">>, <<401, "Unauthorized">>, <<403, "Forbidden">>,
                 <<404, "Not Found">>, <<500, "Internal Server Error">>,
                 <<503, "Service Unavailable">> },
        j \in { Json(User1), Json(Detail1), NoJson } }

\* applyTheme(t): the document's data-theme and localStorage.theme.
ApplyTheme(ly, t) == [ly EXCEPT !.dataset = Str(<<t>>), !.storage = Str(<<t>>)]

\* if (!user) return <div>Lade...</div>: otherwise tabs and children.
Rendered(ly) == Truthy(ly.user)

\* An earlier visit has left its theme in localStorage.
AlEarlierVisit(t) ==
    /\ layout.pc = "idle"
    /\ layout.storage = JsNull
    /\ layout' = [layout EXCEPT !.storage = Str(<<t>>)]
    /\ UNCHANGED restOfLayout

\* The layout mounts: the auth effect issues apiFetch("/auth/me"), the theme
\* effect applies the saved theme, "light" without one.
AlMount ==
    /\ layout.pc = "idle"
    /\ LET saved == IF layout.storage.type = "null" THEN "light"
                    ELSE layout.storage.chars[1]
       IN  layout' = [ApplyTheme(layout, saved) EXCEPT !.theme = saved,
                                                       !.pc = "awaitFetch"]
    /\ UNCHANGED restOfLayout

\* /auth/me settles: the then-callback runs up to `await res.json()`.  A
\* rejection runs no callback.
AlAuthSettles(o) ==
    /\ layout.pc = "awaitFetch"
    /\ layout' =
         IF o.kind = "reject"
         THEN [layout EXCEPT !.res = Settled(o), !.pc = "rejected"]
         ELSE IF o.status = 401
         THEN [layout EXCEPT !.res = Settled(o), !.pc = "done",
                             !.location = "/login"]
         ELSE [layout EXCEPT !.res = Settled(o), !.pc = "awaitJson"]
    /\ UNCHANGED restOfLayout

\* The callback resumes after `await res.json()`: setUser(...).
AlAuthJson ==
    /\ layout.pc = "awaitJson"
    /\ LET j == layout.res.o.json
       IN  layout' = IF ~j.ok THEN [layout EXCEPT !.pc = "rejected"]
                     ELSE [layout EXCEPT !.user = j.value, !.pc = "done"]
    /\ UNCHANGED restOfLayout

\* toggleTheme(), from the button the rendered layout shows.
AlToggleTheme ==
    /\ Rendered(layout) /\ layout.location = "app"
    /\ LET next == IF layout.theme = "light" THEN "dark" ELSE "light"
       IN  layout' = ApplyTheme([layout EXCEPT !.theme = next], next)
    /\ UNCHANGED restOfLayout

\* doLogout() up to `await apiFetch("/auth/logout", ...)`.
AlLogout ==
    /\ Rendered(layout) /\ layout.location = "app"
    /\ layout.logout = "none"
    /\ layout' = [layout EXCEPT !.logout = "awaiting"]
    /\ UNCHANGED restOfLayout

\* The logout request settles: router.push("/login") whatever the status.
AlLogoutSettles(o) ==
    /\ layout.logout = "awaiting"
    /\ layout' = IF o.kind = "reject"
                 THEN [layout EXCEPT !.logout = "rejected"]
                 ELSE [layout EXCEPT !.logout = "done", !.location = "/login"]
    /\ UNCHANGED restOfLayout

NextLayout ==
    \/ \E t \in Themes : AlEarlierVisit(t)
    \/ AlMount
    \/ \E o \in AuthOutcomes : AlAuthSettles(o)
    \/ AlAuthJson
    \/ AlToggleTheme
    \/ AlLogout
    \/ \E o \in MutationOutcomes : AlLogoutSettles(o)

SpecLayout == InitGateway /\ [][NextLayout]_vars

\* C29: `user` is set, and with it the tabs and the children are rendered,
\* only after /auth/me answered with a success status; a 401 leaves `user`
\* null and redirects to /login.
C29_UserOnlyAfterSuccess ==
    /\ layout.user # JsNull =>
          /\ layout.res # Unsettled
          /\ layout.res.o.kind = "response"
          /\ ResOk(layout.res.o)
    /\ (layout.res # Unsettled /\ layout.res.o.kind = "response"
        /\ layout.res.o.status = 401) =>
          (layout.user = JsNull /\ layout.location = "/login")

(***************************************************************************)
(* update.sh.  The script runs with `set -e`: a command that fails ends    *)
(* the run.  A file is "absent" or is its content: "local" (what the       *)
(* operator wrote), "head" (what HEAD holds), "remote" (what origin/main   *)
(* holds where it differs from HEAD).                                      *)
(***************************************************************************)
LOCAL_ONLY_FILES == {".env", ".env.local"}

\* One file before the run: whether HEAD tracks it, what the working tree
\* holds, and what origin/main does to it.
FileSituations ==
    { [head |-> "head", work |-> w, remote |-> r] :
        w \in {"absent", "local", "head"}, r \in {"same", "changed", "removed"} }
    \cup
    { [head |-> "absent", work |-> w, remote |-> r] :
        w \in {"absent", "local"}, r \in {"same", "added"} }

\* The runs: the arguments (--nodbupdate; the CSV argument, which names a
\* file or a path that is no file), the local-only files, the tracked files
\* besides them (clean, content changed, mode changed), origin/main ahead.
UpdateInputs ==
    { [nodbupdate |-> n, csv |-> c, files |-> f, others |-> o, ahead |-> a] :
        n \in BOOLEAN, c \in {"none", "file", "missing"},
        f \in [LOCAL_ONLY_FILES -> FileSituations],
        o \in {"clean", "content", "mode"},
        a \in BOOLEAN }

\* origin/main differs from HEAD.
RemoteAhead(in) ==
    in.ahead \/ \E f \in LOCAL_ONLY_FILES : in.files[f].remote # "same"

\* Lines 108-113: cp "$file" "$BACKUP_DIR/" for the files that exist.
BackupLocalOnly(work) == [f \in LOCAL_ONLY_FILES |-> work[f]]

\* The local-only files left as git left them.
RestoreNothing(work, backup) == work

\* Lines 197-202: cp "$BACKUP_DIR/$file" "$file" for the files backed up.
RestoreLocalOnly(work, backup) ==
    [f \in LOCAL_ONLY_FILES |->
        IF backup[f] # "absent" THEN backup[f] ELSE work[f]]

\* git diff --quiet HEAD fails: the content of a tracked file differs from
\* HEAD.
ContentChanges(u) ==
    \/ u.others = "content"
    \/ \E f \in LOCAL_ONLY_FILES : u.head[f] # "absent" /\ u.work[f] # u.head[f]

\* git diff-index --quiet HEAD fails: a tracked file differs from HEAD, in
\* its mode if not in its content.
TrackedChanges(u) == ContentChanges(u) \/ u.others = "mode"

\* git reset --hard HEAD: every tracked file as HEAD holds it.
GitResetHard(u) ==
    [f \in LOCAL_ONLY_FILES |->
        IF u.head[f] # "absent" THEN u.head[f] ELSE u.work[f]]

\* git pull refuses to overwrite an untracked file origin/main adds.
PullAborts(u) ==
    \E f \in LOCAL_ONLY_FILES : u.remote[f] = "added" /\ u.work[f] # "absent"

\* git pull origin main: the working tree follows origin/main.
GitPull(u) ==
    [f \in LOCAL_ONLY_FILES |->
        CASE u.remote[f] \in {"changed", "added"} -> "remote"
          [] u.remote[f] = "removed"              -> "absent"
          [] OTHER                                -> u.work[f]]

Exit(u) == [u EXCEPT !.pc = "exit"]

\* Lines 7-75: the arguments are parsed and checked.
UpInvoke ==
    /\ upd.pc = "idle"
    /\ \E in \in UpdateInputs :
         LET skip == in.nodbupdate \/ in.csv = "none"
             work == [f \in LOCAL_ONLY_FILES |-> in.files[f].work]
             u == [pc |-> "backup", nodbupdate |-> in.nodbupdate, csv |-> in.csv,
                   SKIP_DB_UPDATE |-> skip, REPO_UPDATED |-> FALSE,
                   work |-> work, before |-> work,
                   head |-> [f \in LOCAL_ONLY_FILES |-> in.files[f].head],
                   remote |-> [f \in LOCAL_ONLY_FILES |-> in.files[f].remote],
                   others |-> in.others, ahead |-> RemoteAhead(in),
                   backup |-> [f \in LOCAL_ONLY_FILES |-> "absent"],
                   imported |-> FALSE]
         IN  upd' = IF ~skip /\ in.csv = "missing" THEN Exit(u) ELSE u
    /\ UNCHANGED restOfUpdate

\* Lines 77-128: the local configuration is read and the backup is made.
UpBackup ==
    /\ upd.pc = "backup"
    /\ upd' = [upd EXCEPT !.backup = BackupLocalOnly(upd.work), !.pc = "status"]
    /\ UNCHANGED restOfUpdate

\* Lines 130-156: local changes to tracked files are reset, after the
\* operator's answer when contents have changed.
UpStatus(answer) ==
    /\ upd.pc = "status"
    /\ upd' =
         IF ~TrackedChanges(upd) THEN [upd EXCEPT !.pc = "fetch"]
         ELSE IF ContentChanges(upd) /\ answer = "n" THEN Exit(upd)
         ELSE [upd EXCEPT !.work = GitResetHard(upd), !.others = "clean",
                          !.pc = "fetch"]
    /\ UNCHANGED restOfUpdate

\* Lines 158-190: origin/main is fetched and, after the operator's answer,
\* pulled.
UpPull(answer) ==
    /\ upd.pc = "fetch"
    /\ upd' =
         IF ~upd.ahead THEN [upd EXCEPT !.pc = "restore"]
         ELSE IF answer = "n" \/ PullAborts(upd) THEN Exit(upd)
         ELSE [upd EXCEPT !.work = GitPull(upd), !.REPO_UPDATED = TRUE,
                          !.pc = "restore"]
    /\ UNCHANGED restOfUpdate

\* Lines 192-276: the local-only files are restored; retro-hunter.py is
\* patched and the scripts are made executable.
UpRestore ==
    /\ upd.pc = "restore"
    /\ upd' = [upd EXCEPT !.work = RestoreLocalOnly(upd.work, upd.backup),
                          !.pc = "db"]
    /\ UNCHANGED restOfUpdate

\* Lines 278-317: the database update, unless it is skipped; a missing import
\* script, the refusal to start the database and a failing import end the run.
UpDbUpdate(ok) ==
    /\ upd.pc = "db"
    /\ upd' =
         IF upd.SKIP_DB_UPDATE THEN [upd EXCEPT !.pc = "restart"]
         ELSE IF ~ok THEN Exit(upd)
         ELSE [upd EXCEPT !.imported = TRUE, !.pc = "restart"]
    /\ UNCHANGED restOfUpdate

\* Lines 319-352: the containers are restarted or not, old backups are
\* removed or not, "Update complete!".
UpFinish ==
    /\ upd.pc = "restart"
    /\ upd' = [upd EXCEPT !.pc = "complete"]
    /\ UNCHANGED restOfUpdate

NextUpdate ==
    \/ UpInvoke
    \/ UpBackup
    \/ \E answer \in {"Y", "n"} : UpStatus(answer)
    \/ \E answer \in {"Y", "n"} : UpPull(answer)
    \/ UpRestore
    \/ \E ok \in BOOLEAN : UpDbUpdate(ok)
    \/ UpFinish

SpecUpdate == InitGateway /\ [][NextUpdate]_vars

\* C30: in every run that reaches "Update complete", each of .env and
\* .env.local that was in the project directory before the run holds the
\* content it held before; and the import is executed only in a run that
\* was given a CSV argument and no --nodbupdate.
C30_LocalFilesPreserved ==
    /\ upd.pc = "complete" =>
          \A f \in LOCAL_ONLY_FILES :
              upd.before[f] # "absent" => upd.work[f] = upd.before[f]
    /\ (upd.pc # "idle" /\ upd.imported) =>
          (upd.csv # "none" /\ ~upd.nodbupdate)

\* C30 witness: a run that reset the operator's change to a tracked .env,
\* pulled a commit that changes it, and imported the CSV, has completed with
\* the operator's .env.
C30_Witness ==
    /\ upd.pc = "complete"
    /\ upd.head[".env"] = "head" /\ upd.before[".env"] = "local"
    /\ upd.remote[".env"] = "changed" /\ upd.REPO_UPDATED
    /\ upd.before[".env.local"] = "local" /\ upd.remote[".env.local"] = "removed"
    /\ upd.work = upd.before
    /\ upd.imported

====
